---------------------------- MODULE Spec2Model ----------------------------
(***************************************************************************)
(* kube-apiserver-audit-exporter: the log tailer (processFileUpdate) and   *)
(* the correlation engine (updateMetrics) of one exporter instance.       *)
(*                                                                         *)
(* The audit log is a sequence of bytes.  A record is the line            *)
(* "{" payload "}" "\n"; the payload stands for the JSON members of the   *)
(* audit event (one byte names one event of DecodeTable, the empty        *)
(* payload is the empty JSON object, anything else does not decode).      *)
(* The environment (the API server writing the log, logrotate, the file   *)
(* system) appends lines in one or two chunks, truncates the file and     *)
(* injects I/O faults into a poll.                                         *)
(***************************************************************************)
EXTENDS Integers, Sequences, FiniteSets, TLC

VARIABLES
    file,                    \* the bytes of the audit log on disk
    wrest,                   \* bytes of a line the writer has begun and not finished
    offset,                  \* Exporter.offset
    podCreationTimes,        \* Exporter.podCreationTimes: Target -> lifecycle entry
    batchJobCreationTimes,   \* Exporter.batchJobCreationTimes
    apiRequests,             \* api_requests_total: the number of increments
    podSchedulingLatency,    \* pod_scheduling_latency_seconds: the observations
    podDeletedTotal,         \* pod_deleted_total: the phase label of each increment
    batchJobCompleteLatency, \* batchjob_completion_latency_seconds: the observations
    crashed,                 \* the process died of a run-time panic
    last,                    \* what the most recent poll did (history)
    applied,                 \* byte positions of the records applied since the last reset (history)
    partialPos,              \* where the most recent poll stopped at an unterminated record, or -1
    nwrites,                 \* lines the writer has begun
    ntruncs,                 \* truncations so far
    nevents,                 \* events fed directly to the engine (SpecEngine)
    lastFiltered,            \* the most recent directly fed event was dropped by the entry filter
    resolvedOnce,            \* lifecycles resolved by a fed event and not deleted since (history)
    peer,                    \* a second Exporter of the process: its lifecycle maps and offset
    boot,                    \* monitorAndStartExporters: the files, the barrier and what it started
    pacer,                   \* replay mode: the clock, the log being replayed, the lag
    label                    \* a user-agent string and the user label made of it

vars == <<file, wrest, offset, podCreationTimes, batchJobCreationTimes, apiRequests,
          podSchedulingLatency, podDeletedTotal, batchJobCompleteLatency, crashed,
          last, applied, partialPos, nwrites, ntruncs, nevents, lastFiltered,
          resolvedOnce, peer, boot, pacer, label>>

-----------------------------------------------------------------------------
(* Bounds of the model *)

MaxWrites == 2
MaxTruncs == 1
MaxTime == 2
MaxEvents == 3
NPaths == 2
MaxTicks == 3
MaxLen == 3

-----------------------------------------------------------------------------
(* Bytes, lines *)

LB == "{"
RB == "}"
NL == "\n"

Times == 0 .. MaxTime

HasPrefix(s, p) == Len(s) >= Len(p) /\ SubSeq(s, 1, Len(p)) = p
HasSuffix(s, p) == Len(s) >= Len(p) /\ SubSeq(s, Len(s) - Len(p) + 1, Len(s)) = p


-----------------------------------------------------------------------------
(* Targets and lifecycle entries.  A Go map entry is missing (Absent), a   *)
(* nil pointer (Resolved) or a pointer to the stored time (Pending).       *)

Names == {"a"}
Namespace == "ns"

ZeroTarget == [Name |-> "", Namespace |-> ""]
Targets == {[Name |-> n, Namespace |-> Namespace] : n \in Names} \cup {ZeroTarget}

Absent == [tag |-> "absent", t |-> 0]
Resolved == [tag |-> "resolved", t |-> 0]
Pending(t) == [tag |-> "pending", t |-> t]

-----------------------------------------------------------------------------
(* Audit events (auditv1.Event) and the embedded snapshots *)

StageResponseComplete == "ResponseComplete"
StageResponseStarted == "ResponseStarted"

NoBody == [kind |-> "nil", Name |-> "", Namespace |-> "", NodeName |-> "", Phase |-> "",
           CreationTimestamp |-> 0, StatePhase |-> "", HasCompletionTime |-> FALSE,
           Conditions |-> <<>>]
BadBody == [NoBody EXCEPT !.kind = "bad"]
Snapshot(name, node, phase, ct, sp, hc) ==
    [kind |-> "obj", Name |-> name, Namespace |-> IF name = "" THEN "" ELSE Namespace,
     NodeName |-> node, Phase |-> phase, CreationTimestamp |-> ct, StatePhase |-> sp,
     HasCompletionTime |-> hc, Conditions |-> <<>>]

\* the types of the status conditions a job snapshot's JSON may list, as the words they
\* are made of: "Complete", "Completed", "Failed"
ConditionTypes == {<<"Complete">>, <<"Complete", "d">>, <<"Failed">>}

\* the same snapshot with status.conditions in its JSON
WithConditions(body, conds) == [body EXCEPT !.Conditions = conds]

\* json.Unmarshal(event.ResponseObject.Raw, &pod): fails on a body that is not the
\* JSON of an object, otherwise fills the fields the body has.
UnmarshalOK(body) == body.kind = "obj"

CodeLow == 200
CodeHigh == 300

UAkubectl == <<"k", "/", "1">>
UAsched == <<"s", " ", "x", "/", "1">>
UAempty == <<>>
Unknown == <<"u", "n", "k", "n", "o", "w", "n">>

Event(hs, code, stage, hr, res, sub, name, verb, ua, ts, body) ==
    [hasStatus |-> hs, Code |-> code, Stage |-> stage, hasRef |-> hr, Resource |-> res,
     APIGroup |-> IF res = "jobs" THEN "batch" ELSE "", Subresource |-> sub,
     Name |-> name, Namespace |-> IF hr THEN Namespace ELSE "", Verb |-> verb,
     UserAgent |-> ua, StageTimestamp |-> ts, ResponseObject |-> body]

\* The empty JSON object decodes to the zero Event.
ZeroEvent == Event(FALSE, 0, "", FALSE, "", "", "", "", UAempty, 0, NoBody)

-----------------------------------------------------------------------------
(* Extraction helpers *)

RECURSIVE IndexOf(_, _, _)
IndexOf(s, c, i) ==
    IF i > Len(s) THEN 0 ELSE IF s[i] = c THEN i ELSE IndexOf(s, c, i + 1)

\* strings.SplitN(s, sep, 2)[0]
SplitFirst(s, sep) ==
    LET i == IndexOf(s, sep, 1) IN IF i = 0 THEN s ELSE SubSeq(s, 1, i - 1)

\* the name is returned as it is, empty or not
extractUserAgent_NoDefault(ua) == SplitFirst(SplitFirst(ua, "/"), " ")

extractUserAgent(ua) ==
    LET parts0 == SplitFirst(ua, "/")
        name == SplitFirst(parts0, " ")
    IN IF name = <<>> THEN Unknown ELSE name

extractResourceName(event) ==
    IF ~event.hasRef THEN <<"None">>
    ELSE <<event.Resource>>
         \o (IF event.APIGroup # "" THEN <<".", event.APIGroup>> ELSE <<>>)
         \o (IF event.Subresource # "" THEN <<"/", event.Subresource>> ELSE <<>>)

buildTarget(event) ==
    IF ~event.hasRef \/ event.Name = "" THEN ZeroTarget
    ELSE [Name |-> event.Name, Namespace |-> event.Namespace]

\* BatchJobStatus.IsCompleted: the struct has the fields completionTime and state.phase
\* only, so whatever else the status JSON holds (conditions) is dropped by the decoder
IsCompleted(body) ==
    IF body.StatePhase = "Completed" THEN TRUE
    ELSE IF body.HasCompletionTime THEN TRUE
    ELSE FALSE

-----------------------------------------------------------------------------
(* The correlation engine: Exporter.updateMetrics.  m is the engine state: *)
(* the two lifecycle maps, the four metrics and the crash flag.            *)

Engine(pods, jobs, api, plat, pdel, jlat, cr) ==
    [podCreationTimes |-> pods, batchJobCreationTimes |-> jobs, apiRequests |-> api,
     podSchedulingLatency |-> plat, podDeletedTotal |-> pdel,
     batchJobCompleteLatency |-> jlat, crashed |-> cr]

\* the namespace label: ns stays "" when the event has no ObjectRef
nsLabel(event) == IF event.hasRef THEN event.Namespace ELSE ""

\* the entry filter with > for >=: a code of 300 passes
PassesFilter_Inclusive(event) ==
    ~(~event.hasStatus \/ (event.Code < CodeLow \/ event.Code > CodeHigh))

\* if event.ResponseStatus == nil || Code < 200 || Code >= 300 { return }
PassesFilter(event) ==
    ~(~event.hasStatus \/ (event.Code < CodeLow \/ event.Code >= CodeHigh))

\* the label values of one api_requests_total increment (the cluster label is the
\* exporter's own and the same on all of them)
apiLabels(event) ==
    [ns |-> nsLabel(event), user |-> extractUserAgent(event.UserAgent),
     verb |-> event.Verb, resource |-> extractResourceName(event), code |-> event.Code]

\* an increment at every stage
countAPIRequest_AnyStage(m, event) == [m EXCEPT !.apiRequests = @ + 1]

\* apiRequests.WithLabelValues(labels...).Inc() when the stage is ResponseComplete;
\* the state keeps the number of increments
countAPIRequest(m, event) ==
    IF event.Stage = StageResponseComplete
    THEN [m EXCEPT !.apiRequests = @ + 1]
    ELSE m

\* histogram.WithLabelValues(cluster, ns, user).Observe(v); the state keeps the values
Observation(event, v) == v

\* a binding whose latency is the stage timestamp itself, not its distance from the
\* stored creation time
podBinding_IgnoresStored(m, event) ==
    LET target == buildTarget(event)
        entry == m.podCreationTimes[target]
    IN IF entry.tag = "absent"
       THEN [m EXCEPT !.podSchedulingLatency = Append(@, Observation(event, 0)),
                      !.podCreationTimes[target] = Resolved]
       ELSE IF entry.tag = "resolved"
       THEN m
       ELSE [m EXCEPT !.podSchedulingLatency =
                          Append(@, Observation(event, event.StageTimestamp)),
                      !.podCreationTimes[target] = Resolved]

\* a binding that treats a resolved entry like a missing one and emits 0 again
podBinding_Reemits(m, event) ==
    LET target == buildTarget(event)
        entry == m.podCreationTimes[target]
    IN IF entry.tag \in {"absent", "resolved"}
       THEN [m EXCEPT !.podSchedulingLatency = Append(@, Observation(event, 0)),
                      !.podCreationTimes[target] = Resolved]
       ELSE [m EXCEPT !.podSchedulingLatency =
                          Append(@, Observation(event, event.StageTimestamp - entry.t)),
                      !.podCreationTimes[target] = Resolved]

\* a binding that emits 0 for a Target without an entry and stores nothing for it
podBinding_KeepsAbsent(m, event) ==
    LET target == buildTarget(event)
        entry == m.podCreationTimes[target]
    IN IF entry.tag = "absent"
       THEN [m EXCEPT !.podSchedulingLatency = Append(@, Observation(event, 0))]
       ELSE IF entry.tag = "resolved"
       THEN m
       ELSE [m EXCEPT !.podSchedulingLatency =
                          Append(@, Observation(event, event.StageTimestamp - entry.t)),
                      !.podCreationTimes[target] = Resolved]

\* case "pods", binding create
podBinding(m, event) ==
    LET target == buildTarget(event)
        entry == m.podCreationTimes[target]
    IN IF entry.tag = "absent"
       THEN [m EXCEPT !.podSchedulingLatency = Append(@, Observation(event, 0)),
                      !.podCreationTimes[target] = Resolved]
       ELSE IF entry.tag = "resolved"
       THEN m
       ELSE [m EXCEPT !.podSchedulingLatency =
                          Append(@, Observation(event, event.StageTimestamp - entry.t)),
                      !.podCreationTimes[target] = Resolved]

\* a create that stores every pod as pending, scheduled or not
podCreate_AlwaysPending(m, event) ==
    LET body == event.ResponseObject
        target == [Name |-> body.Name, Namespace |-> body.Namespace]
    IN IF body.kind = "nil" THEN [m EXCEPT !.crashed = TRUE]
       ELSE IF ~UnmarshalOK(body) THEN m
       ELSE [m EXCEPT !.podCreationTimes[target] = Pending(event.StageTimestamp)]

\* a create that takes a body it cannot decode for a fatal error
podCreate_Strict(m, event) ==
    LET body == event.ResponseObject
        target == [Name |-> body.Name, Namespace |-> body.Namespace]
    IN IF body.kind = "nil" THEN [m EXCEPT !.crashed = TRUE]
       ELSE IF ~UnmarshalOK(body) THEN [m EXCEPT !.crashed = TRUE]
       ELSE IF body.NodeName = ""
       THEN [m EXCEPT !.podCreationTimes[target] = Pending(event.StageTimestamp)]
       ELSE [m EXCEPT !.podCreationTimes[target] = Resolved]

\* case "pods", any other create: event.ResponseObject.Raw is read without a nil check
podCreate(m, event) ==
    LET body == event.ResponseObject
        target == [Name |-> body.Name, Namespace |-> body.Namespace]
    IN IF body.kind = "nil" THEN [m EXCEPT !.crashed = TRUE]
       ELSE IF ~UnmarshalOK(body) THEN m
       ELSE IF body.NodeName = ""
       THEN [m EXCEPT !.podCreationTimes[target] = Pending(event.StageTimestamp)]
       ELSE [m EXCEPT !.podCreationTimes[target] = Resolved]

\* a delete that counts a pod for every response body, decodable or not
podDelete_CountsAll(m, event) ==
    LET body == event.ResponseObject
        m1 == [m EXCEPT !.podCreationTimes[buildTarget(event)] = Absent]
    IN IF body.kind = "nil" THEN m1
       ELSE [m1 EXCEPT !.podDeletedTotal = Append(@, body.Phase)]

\* a delete that counts the deleted pod and leaves its lifecycle entry in the map
podDelete_Keeps(m, event) ==
    LET body == event.ResponseObject
    IN IF body.kind = "nil" THEN m
       ELSE IF ~UnmarshalOK(body) THEN m
       ELSE [m EXCEPT !.podDeletedTotal = Append(@, body.Phase)]

\* case "pods", delete
podDelete(m, event) ==
    LET body == event.ResponseObject
        m1 == [m EXCEPT !.podCreationTimes[buildTarget(event)] = Absent]
    IN IF body.kind = "nil" THEN m1
       ELSE IF ~UnmarshalOK(body) THEN m1
       ELSE [m1 EXCEPT !.podDeletedTotal = Append(@, body.Phase)]

podLifecycle(m, event) ==
    IF event.Subresource = "binding" /\ event.Verb = "create" THEN podBinding(m, event)
    ELSE IF event.Verb = "create" THEN podCreate(m, event)
    ELSE IF event.Verb = "delete" THEN podDelete(m, event)
    ELSE m

\* case "jobs", create with a response body
jobCreate(m, event) ==
    LET body == event.ResponseObject
        target == [Name |-> body.Name, Namespace |-> body.Namespace]
    IN IF ~UnmarshalOK(body) THEN m
       ELSE [m EXCEPT !.batchJobCreationTimes[target] = Pending(event.StageTimestamp)]

\* case "jobs", delete
jobDelete(m, event) ==
    [m EXCEPT !.batchJobCreationTimes[buildTarget(event)] = Absent]

\* a completion that removes the entry where the code stores nil
jobUpdate_Removes(m, event) ==
    LET body == event.ResponseObject
        target == buildTarget(event)
        entry == m.batchJobCreationTimes[target]
    IN IF entry.tag = "pending" /\ body.kind # "nil"
       THEN IF ~UnmarshalOK(body) THEN m
            ELSE IF IsCompleted(body)
            THEN [m EXCEPT !.batchJobCompleteLatency =
                               Append(@, Observation(event,
                                      event.StageTimestamp - body.CreationTimestamp)),
                           !.batchJobCreationTimes[target] = Absent]
            ELSE m
       ELSE m

\* case "jobs", any other verb
jobUpdate(m, event) ==
    LET body == event.ResponseObject
        target == buildTarget(event)
        entry == m.batchJobCreationTimes[target]
    IN IF entry.tag = "pending" /\ body.kind # "nil"
       THEN IF ~UnmarshalOK(body) THEN m
            ELSE IF IsCompleted(body)
            THEN [m EXCEPT !.batchJobCompleteLatency =
                               Append(@, Observation(event,
                                      event.StageTimestamp - body.CreationTimestamp)),
                           !.batchJobCreationTimes[target] = Resolved]
            ELSE m
       ELSE m

jobLifecycle(m, event) ==
    IF event.Verb = "create" /\ event.ResponseObject.kind # "nil" THEN jobCreate(m, event)
    ELSE IF event.Verb = "delete" THEN jobDelete(m, event)
    ELSE jobUpdate(m, event)

updateMetrics(m, event) ==
    IF ~PassesFilter(event) THEN m
    ELSE LET m1 == countAPIRequest(m, event)
         IN IF ~event.hasRef THEN m1
            ELSE IF event.Resource = "pods" THEN podLifecycle(m1, event)
            ELSE IF event.Resource = "jobs" THEN jobLifecycle(m1, event)
            ELSE m1

-----------------------------------------------------------------------------
(* Records of the log file *)

\* The events the writer of the tailed log produces, by payload byte.
\* "c": pod a created unscheduled; "b": pod a bound; "d": a pod create and "e": a delete
\* of pod a, each with a response body that is not the JSON of an object; "j": job a
\* created; "k": an update of job a with such a body
DecodeTable ==
    [b \in {"c", "b", "d", "e", "j", "k"} |->
        IF b = "c"
        THEN Event(TRUE, 201, StageResponseComplete, TRUE, "pods", "", "", "create",
                   UAkubectl, 0, Snapshot("a", "", "Pending", 0, "", FALSE))
        ELSE IF b = "b"
        THEN Event(TRUE, 201, StageResponseComplete, TRUE, "pods", "binding", "a", "create",
                   UAsched, 1, NoBody)
        ELSE IF b = "d"
        THEN Event(TRUE, 201, StageResponseComplete, TRUE, "pods", "", "", "create",
                   UAkubectl, 0, BadBody)
        ELSE IF b = "e"
        THEN Event(TRUE, 200, StageResponseComplete, TRUE, "pods", "", "a", "delete",
                   UAkubectl, 2, BadBody)
        ELSE IF b = "j"
        THEN Event(TRUE, 201, StageResponseComplete, TRUE, "jobs", "", "", "create",
                   UAkubectl, 0, Snapshot("a", "", "", 0, "", FALSE))
        ELSE Event(TRUE, 200, StageResponseComplete, TRUE, "jobs", "", "a", "update",
                   UAkubectl, 1, BadBody)]

EventBytes == DOMAIN DecodeTable

Record(b) == <<LB, b, RB, NL>>
\* a record with JSON white space before the closing brace
PaddedRecord(b) == <<LB, b, " ", RB, NL>>
EmptyObject == <<LB, RB, NL>>
UndecodableLine == <<LB, "!", RB, NL>>
MalformedLine == <<"x", NL>>

WriterLines ==
    {Record("c"), PaddedRecord("b"), EmptyObject, UndecodableLine, MalformedLine}

\* the shape check with && for ||: a line is refused only when both ends are wrong
WellShaped_BothEnds(line) == ~(~HasPrefix(line, <<LB>>) /\ ~HasSuffix(line, <<RB, NL>>))

\* bytes.HasPrefix(line, "{") && bytes.HasSuffix(line, "}\n")
WellShaped(line) == ~(~HasPrefix(line, <<LB>>) \/ ~HasSuffix(line, <<RB, NL>>))

Payload(line) == SubSeq(line, 2, Len(line) - 2)

Blank(s) == \A i \in 1 .. Len(s) : s[i] = " "

\* json.Unmarshal(line, &event) succeeds
Decodable(line) ==
    LET p == Payload(line)
    IN Blank(p) \/ (p[1] \in EventBytes /\ Blank(Tail(p)))

ParseEvent(line) ==
    LET p == Payload(line) IN IF Blank(p) THEN ZeroEvent ELSE DecodeTable[p[1]]

-----------------------------------------------------------------------------
(* The log tailer: Exporter.processFileUpdate *)

NoFault == [kind |-> "none", k |-> 0]
Faults == {[kind |-> x, k |-> 0] : x \in {"none", "stat", "open", "seek"}}
          \cup {[kind |-> "read", k |-> j] : j \in {0, 1}}

PollResult(m, off, err, reset, app) ==
    [m |-> m, offset |-> off, err |-> err, reset |-> reset, applied |-> app]

\* a ReadSlice that hands the bytes left at end of file to the loop as a line
ReadSlice_KeepsTail(f, off) ==
    IF IndexOf(f, NL, off + 1) = 0 /\ off < Len(f) THEN Len(f) ELSE IndexOf(f, NL, off + 1)

\* reader.ReadSlice('\n') at byte off: the index of the line's newline, 0 at end of
\* file (io.EOF, whatever bytes are left)
ReadSlice(f, off) == IndexOf(f, NL, off + 1)

\* an offset advanced by one byte too many
Advance_OneMore(off, line) == off + Len(line) + 1

\* p.offset += int64(len(line))
Advance(off, line) == off + Len(line)

\* the for loop: the k-th reader.ReadSlice('\n') reads the line at byte off
RECURSIVE readLoop(_, _, _, _, _, _, _)
readLoop(f, m, off, k, fault, reset, app) ==
    IF fault.kind = "read" /\ fault.k = k THEN PollResult(m, off, "read", reset, app)
    ELSE LET i == ReadSlice(f, off)
         IN IF i = 0 THEN PollResult(m, off, "nil", reset, app)
            ELSE LET line == SubSeq(f, off + 1, i)
                 IN IF ~WellShaped(line) THEN PollResult(m, off, "malformed", reset, app)
                    ELSE IF ~Decodable(line) THEN PollResult(m, off, "json", reset, app)
                    ELSE LET m2 == updateMetrics(m, ParseEvent(line))
                         IN IF m2.crashed
                            THEN PollResult(m2, off, "panic", reset, Append(app, off))
                            ELSE readLoop(f, m2, Advance(off, line), k + 1, fault, reset,
                                          Append(app, off))

\* the truncation test with <= for <
Truncated_OrEqual(size, off) == size <= off

\* if size := fileInfo.Size(); size < p.offset
Truncated(size, off) == size < off

\* a reset that leaves the offset where it was
resetOffset_Keeps(size, off) == off

\* p.offset = 0 on truncation
resetOffset(size, off) == IF Truncated(size, off) THEN 0 ELSE off

\* a poll that empties the lifecycle maps when it resets the offset
processFileUpdate_ClearsState(f, m, off, fault) ==
    IF fault.kind = "stat" THEN PollResult(m, off, "stat", FALSE, <<>>)
    ELSE LET size == Len(f)
             reset == Truncated(size, off)
             off1 == resetOffset(size, off)
             m1 == IF reset
                   THEN [m EXCEPT !.podCreationTimes = [t \in Targets |-> Absent],
                                  !.batchJobCreationTimes = [t \in Targets |-> Absent]]
                   ELSE m
         IN IF ~reset /\ size = off THEN PollResult(m, off, "nil", FALSE, <<>>)
            ELSE IF fault.kind = "open" THEN PollResult(m1, off1, "open", reset, <<>>)
            ELSE IF fault.kind = "seek" THEN PollResult(m1, off1, "seek", reset, <<>>)
            ELSE readLoop(f, m1, off1, 0, fault, reset, <<>>)

processFileUpdate(f, m, off, fault) ==
    IF fault.kind = "stat" THEN PollResult(m, off, "stat", FALSE, <<>>)
    ELSE LET size == Len(f)
             reset == Truncated(size, off)
             off1 == resetOffset(size, off)
         IN IF ~reset /\ size = off THEN PollResult(m, off, "nil", FALSE, <<>>)
            ELSE IF fault.kind = "open" THEN PollResult(m, off1, "open", reset, <<>>)
            ELSE IF fault.kind = "seek" THEN PollResult(m, off1, "seek", reset, <<>>)
            ELSE readLoop(f, m, off1, 0, fault, reset, <<>>)

-----------------------------------------------------------------------------
(* State *)

engine == Engine(podCreationTimes, batchJobCreationTimes, apiRequests,
                 podSchedulingLatency, podDeletedTotal, batchJobCompleteLatency, crashed)

SetEngine(m) ==
    /\ podCreationTimes' = m.podCreationTimes
    /\ batchJobCreationTimes' = m.batchJobCreationTimes
    /\ apiRequests' = m.apiRequests
    /\ podSchedulingLatency' = m.podSchedulingLatency
    /\ podDeletedTotal' = m.podDeletedTotal
    /\ batchJobCompleteLatency' = m.batchJobCompleteLatency
    /\ crashed' = m.crashed

engineVars == <<podCreationTimes, batchJobCreationTimes, apiRequests,
                podSchedulingLatency, podDeletedTotal, batchJobCompleteLatency, crashed>>
pollHistory == <<last, applied, partialPos>>
writerVars == <<file, wrest, nwrites, ntruncs>>
feedVars == <<nevents, lastFiltered, resolvedOnce, peer, boot, pacer, label>>

NoPoll == [before |-> 0, size |-> -1, reset |-> FALSE, err |-> "none", napplied |-> 0,
           again |-> FALSE]

BadLineErrors == {"malformed", "json"}

\* --audit-log-path given NPaths times; what os.Stat finds at a path
Paths == 1 .. NPaths
FileStates == {"missing", "empty", "ready"}

\* --delay: none, or some positive duration
Delays == {0, 1}

\* monitorAndStartExporters at its first statement, with the delay flag d and the files st
BootInit(d, st) ==
    [files |-> st, delay |-> d, pc |-> "check", i |-> 1,
     obs |-> [p \in Paths |-> "none"], retried |-> FALSE, slept |-> 0,
     started |-> {}, cycled |-> {}]

\* NewExporter for the second file: offset 0, empty maps; n counts the events it has
\* processed
NewPeer ==
    [podCreationTimes |-> [t \in Targets |-> Absent],
     batchJobCreationTimes |-> [t \in Targets |-> Absent],
     offset |-> 0, n |-> 0]

\* NewExporter: offset 0, empty maps; the registry starts empty
InitExporter ==
    /\ file = <<>>
    /\ wrest = <<>>
    /\ offset = 0
    /\ podCreationTimes = [t \in Targets |-> Absent]
    /\ batchJobCreationTimes = [t \in Targets |-> Absent]
    /\ apiRequests = 0
    /\ podSchedulingLatency = <<>>
    /\ podDeletedTotal = <<>>
    /\ batchJobCompleteLatency = <<>>
    /\ crashed = FALSE
    /\ last = NoPoll
    /\ applied = <<>>
    /\ partialPos = -1
    /\ nwrites = 0
    /\ ntruncs = 0
    /\ nevents = 0
    /\ lastFiltered = FALSE
    /\ resolvedOnce = {}
    /\ peer = NewPeer

\* no user-agent string has been looked at
NoLabel == [ua |-> <<>>, user |-> <<>>, done |-> FALSE]

\* a replay of the stage timestamps log, beginning when the clock shows now
PacerInit(log, now) ==
    [log |-> log, now |-> now, ticks |-> 0, pc |-> "idle", pos |-> 1,
     lagSet |-> FALSE, lag |-> 0, forwarded |-> <<>>,
     held |-> 0, heldAge |-> 0, first |-> 0, prevHeld |-> 0]

Init ==
    /\ InitExporter
    /\ boot = BootInit(0, [p \in Paths |-> "missing"])
    /\ pacer = PacerInit(<<>>, 0)
    /\ label = NoLabel

\* the poll stopped at end of file with an unterminated record left
StoppedAtPartial(f, r) == r.err = "nil" /\ r.offset < Len(f)

\* One tick of processAuditEvents: handleFileEvent(p.file)
Poll(fault) ==
    /\ ~crashed
    /\ LET r == processFileUpdate(file, engine, offset, fault)
       IN /\ offset' = r.offset
          /\ SetEngine(r.m)
          /\ last' = [before |-> offset, size |-> Len(file), reset |-> r.reset,
                      err |-> r.err, napplied |-> Len(r.applied),
                      again |-> (r.err \in BadLineErrors /\ last.err \in BadLineErrors
                                 /\ r.offset = offset)]
          /\ applied' = IF r.reset THEN r.applied ELSE applied \o r.applied
          /\ partialPos' = IF StoppedAtPartial(file, r) THEN r.offset
                           ELSE IF r.reset THEN -1
                           ELSE partialPos
    /\ UNCHANGED <<writerVars, feedVars>>

\* The API server appends a line, all of it or a first chunk of it
Chunks(line) == {1, Len(line)}

WriteLine(line, k) ==
    /\ wrest = <<>>
    /\ nwrites < MaxWrites
    /\ file' = file \o SubSeq(line, 1, k)
    /\ wrest' = SubSeq(line, k + 1, Len(line))
    /\ nwrites' = nwrites + 1
    /\ UNCHANGED <<offset, engineVars, pollHistory, ntruncs, feedVars>>

\* ... and the rest of the line
FinishWrite ==
    /\ wrest # <<>>
    /\ file' = file \o wrest
    /\ wrest' = <<>>
    /\ UNCHANGED <<offset, engineVars, pollHistory, nwrites, ntruncs, feedVars>>

\* Log rotation truncates the file in place
Truncate ==
    /\ file # <<>>
    /\ ntruncs < MaxTruncs
    /\ file' = <<>>
    /\ ntruncs' = ntruncs + 1
    /\ UNCHANGED <<wrest, offset, engineVars, pollHistory, nwrites, feedVars>>

Next ==
    \/ \E fault \in Faults : Poll(fault)
    \/ \E line \in WriterLines : \E k \in Chunks(line) : WriteLine(line, k)
    \/ FinishWrite
    \/ Truncate

Spec == Init /\ [][Next]_vars

-----------------------------------------------------------------------------
(* The tailer on a log whose events carry response bodies that do not      *)
(* decode.                                                                 *)

SnapshotLines ==
    {Record("d"), Record("e"), Record("c"), PaddedRecord("b"), Record("j"), Record("k")}

NextSnapshot ==
    \/ \E fault \in Faults : Poll(fault)
    \/ \E line \in SnapshotLines : \E k \in Chunks(line) : WriteLine(line, k)
    \/ FinishWrite

SpecSnapshot == Init /\ [][NextSnapshot]_vars

-----------------------------------------------------------------------------
(* The engine alone: events handed to updateMetrics one at a time, as the  *)
(* read loop does with the events of any log.                              *)

RefNames == Names \cup {""}
Verbs == {"create", "delete", "update"}

\* a request that passed, on the object <<res, sub, name>>
Passed(res, sub, name, verb, ts, body) ==
    Event(TRUE, CodeLow, StageResponseComplete, TRUE, res, sub, name, verb, UAkubectl, ts, body)

PodSnapshots ==
    {Snapshot("a", node, "Succeeded", 0, "", FALSE) : node \in {"", "n1"}}
    \cup {Snapshot("", "", "Succeeded", 0, "", FALSE)}

JobSnapshots ==
    {Snapshot("a", "", "", 0, "", hc) : hc \in BOOLEAN}
    \cup {Snapshot("a", "", "", ct, "Completed", FALSE) : ct \in Times}

PodEvents ==
    {Passed("pods", "binding", n, "create", ts, NoBody) : n \in RefNames, ts \in Times}
    \cup {Passed("pods", "", "a", "create", ts, b) :
            ts \in Times, b \in {NoBody, BadBody} \cup PodSnapshots}
    \cup {Passed("pods", "", n, "delete", 0, b) :
            n \in RefNames, b \in {NoBody, BadBody, Snapshot("a", "n1", "Succeeded", 0, "", FALSE)}}
    \cup {Passed("pods", "", "a", "update", 0, Snapshot("a", "n1", "Succeeded", 0, "", FALSE))}

JobEvents ==
    {Passed("jobs", "", "a", "create", ts, b) :
        ts \in Times,
        b \in {NoBody, BadBody, Snapshot("a", "", "", 0, "", FALSE),
               Snapshot("", "", "", 0, "", FALSE)}}
    \cup {Passed("jobs", "", n, "delete", 0, NoBody) : n \in RefNames}
    \cup {Passed("jobs", "", "a", "update", ts, b) :
            ts \in Times, b \in {NoBody, BadBody} \cup JobSnapshots}
    \cup {Passed("jobs", "", "", "update", ts, Snapshot("a", "", "", 0, "Completed", FALSE)) :
            ts \in Times}
    \cup {Passed("jobs", "", "a", "update", 1,
                 WithConditions(Snapshot("a", "", "", 0, "", FALSE), <<ty>>)) :
            ty \in ConditionTypes}

\* ObjectRef: none, or <<resource, subresource, name>>
SomeRefs == {<<FALSE, "", "", "">>, <<TRUE, "nodes", "", "">>, <<TRUE, "pods", "", "a">>,
             <<TRUE, "pods", "binding", "a">>, <<TRUE, "jobs", "", "a">>}

\* requests without an object, on other resources, at another stage, code or agent
OtherEvents ==
    {Event(TRUE, c, st, r[1], r[2], r[3], r[4], "update", ua, 0, NoBody) :
        c \in {CodeLow, CodeHigh - 1}, st \in {StageResponseComplete, StageResponseStarted},
        r \in {<<FALSE, "", "", "">>, <<TRUE, "nodes", "", "">>}, ua \in {UAsched, UAempty}}
    \cup {Event(TRUE, CodeHigh - 1, StageResponseStarted, TRUE, "pods", "binding", "a",
                "create", UAsched, ts, NoBody) : ts \in Times}

\* events that pass the entry filter
PassingEvents == PodEvents \cup JobEvents \cup OtherEvents

\* events the entry filter drops: no response status, or a code outside [200, 300)
FilteredEvents ==
    {Event(hc[1], hc[2], st, r[1], r[2], r[3], r[4], v, UAkubectl, 1, b) :
        hc \in {<<FALSE, 0>>, <<TRUE, CodeLow - 1>>, <<TRUE, CodeHigh>>},
        st \in {StageResponseComplete, StageResponseStarted},
        r \in SomeRefs, v \in Verbs,
        b \in {Snapshot("a", "", "Succeeded", 0, "Completed", FALSE)}}

Events == PassingEvents \cup FilteredEvents

\* the Target an event's ObjectRef names
RefTarget(event) ==
    IF event.hasRef /\ event.Name # "" THEN [Name |-> event.Name, Namespace |-> event.Namespace]
    ELSE ZeroTarget

\* the event has no response status or a code outside [200, 300)
Ignored(event) == ~event.hasStatus \/ event.Code \notin 200 .. 299

IsDeleteFor(event, res, t) ==
    /\ ~Ignored(event) /\ event.hasRef
    /\ event.Resource = res /\ event.Verb = "delete"
    /\ RefTarget(event) = t

Lifecycles == <<"pods", "jobs">>
Entries(m, res) == IF res = "pods" THEN m.podCreationTimes ELSE m.batchJobCreationTimes

\* the lifecycles that have been resolved and not deleted since, after the event
ResolvedAfter(event, m) ==
    {rt \in {"pods", "jobs"} \X Targets :
        /\ rt \in resolvedOnce \/ Entries(m, rt[1])[rt[2]] = Resolved
        /\ ~IsDeleteFor(event, rt[1], rt[2])}

ApplyEvent(event) ==
    /\ ~crashed
    /\ nevents < MaxEvents
    /\ SetEngine(updateMetrics(engine, event))
    /\ nevents' = nevents + 1
    /\ lastFiltered' = ~PassesFilter(event)
    /\ resolvedOnce' = ResolvedAfter(event, updateMetrics(engine, event))
    /\ UNCHANGED <<peer, boot, pacer, label>>
    /\ UNCHANGED <<offset, writerVars, pollHistory>>

NextEngine == \E event \in Events : ApplyEvent(event)

SpecEngine == Init /\ [][NextEngine]_vars

\* the engine fed only the events of its "pods" and "jobs" cases, the ones that reach
\* the lifecycle maps
LifecycleEvents == PodEvents \cup JobEvents

NextLifecycle == \E event \in LifecycleEvents : ApplyEvent(event)

SpecLifecycle == Init /\ [][NextLifecycle]_vars

-----------------------------------------------------------------------------
(* Two exporters of one process, one per --audit-log-path, each started    *)
(* with go e.Run(). Exporter 1 is the module's own state, exporter 2 is    *)
(* peer. The metric vectors are package-level and shared by both.          *)

Exporters == {1, 2}

\* the lifecycle maps as package-level variables: every exporter uses the same ones
lifecycleOwner_Global(i) == 1

\* p.podCreationTimes, p.batchJobCreationTimes: the maps are fields of the receiver
lifecycleOwner(i) == i

\* what updateMetrics works on when it uses the maps of exporter o
EngineOf(o) ==
    IF o = 1 THEN engine
    ELSE Engine(peer.podCreationTimes, peer.batchJobCreationTimes, apiRequests,
                podSchedulingLatency, podDeletedTotal, batchJobCompleteLatency, crashed)

\* the lifecycle events of the objects named "a", which both files may hold
PairEvents ==
    {Passed("pods", "", "a", "create", ts, Snapshot("a", "", "Succeeded", 0, "", FALSE)) :
        ts \in {0, MaxTime}}
    \cup {Passed("pods", "binding", "a", "create", ts, NoBody) : ts \in {0, MaxTime}}
    \cup {Passed("pods", "", "a", "delete", 0, NoBody)}
    \cup {Passed("jobs", "", "a", "create", ts, Snapshot("a", "", "", 0, "", FALSE)) :
            ts \in {0, MaxTime}}
    \cup {Passed("jobs", "", "a", "update", MaxTime,
                 Snapshot("a", "", "", 0, "Completed", FALSE))}
    \cup {Passed("jobs", "", "a", "delete", 0, NoBody)}
    \cup {Passed("pods", "", "a", "create", 0, NoBody)}

\* exporter i reads one record of its file: p.updateMetrics on the event, then
\* p.offset += len(line) unless updateMetrics panicked
PairStep(i, event) ==
    LET o == lifecycleOwner(i)
        m == updateMetrics(EngineOf(o), event)
    IN /\ ~crashed
       /\ nevents + peer.n < MaxEvents
       /\ apiRequests' = m.apiRequests
       /\ podSchedulingLatency' = m.podSchedulingLatency
       /\ podDeletedTotal' = m.podDeletedTotal
       /\ batchJobCompleteLatency' = m.batchJobCompleteLatency
       /\ crashed' = m.crashed
       /\ podCreationTimes' = IF o = 1 THEN m.podCreationTimes ELSE podCreationTimes
       /\ batchJobCreationTimes' =
            IF o = 1 THEN m.batchJobCreationTimes ELSE batchJobCreationTimes
       /\ offset' = IF i = 1 /\ ~m.crashed THEN Advance(offset, Record("c")) ELSE offset
       /\ nevents' = IF i = 1 THEN nevents + 1 ELSE nevents
       /\ peer' = [podCreationTimes |->
                       IF o = 2 THEN m.podCreationTimes ELSE peer.podCreationTimes,
                   batchJobCreationTimes |->
                       IF o = 2 THEN m.batchJobCreationTimes ELSE peer.batchJobCreationTimes,
                   offset |-> IF i = 2 /\ ~m.crashed
                              THEN Advance(peer.offset, Record("c")) ELSE peer.offset,
                   n |-> IF i = 2 THEN peer.n + 1 ELSE peer.n]
       /\ UNCHANGED <<writerVars, pollHistory, lastFiltered, resolvedOnce, boot, pacer, label>>

NextPair == \E i \in Exporters : \E event \in PairEvents : PairStep(i, event)

SpecPair == Init /\ [][NextPair]_vars

-----------------------------------------------------------------------------
(* Startup: monitorAndStartExporters waits for the audit logs, sleeps the  *)
(* --delay and starts one exporter per path, while the files come and go.  *)

\* a file counts as soon as it exists
fileValid_AllowsEmpty(st) == ~(st = "missing")

\* validAuditLogs, one path: false if os.Stat fails, false if info.Size() == 0
fileValid(st) == ~(st = "missing") /\ ~(st = "empty")

startupVars == <<offset, engineVars, pollHistory, writerVars, nevents, lastFiltered,
                 resolvedOnce, peer, pacer, label>>

\* one iteration of the loop of validAuditLogs, on path boot.i: return false at the
\* first file that is not valid, return true after the last one; obs keeps what
\* os.Stat returned for each path in the current call
StatFile ==
    /\ boot.pc = "check"
    /\ LET p == boot.i
           st == boot.files[p]
           seen == [boot.obs EXCEPT ![p] = st]
       IN boot' = IF ~fileValid(st)
                  THEN [boot EXCEPT !.obs = seen, !.pc = "sleep", !.retried = TRUE]
                  ELSE IF p < NPaths
                  THEN [boot EXCEPT !.obs = seen, !.i = p + 1]
                  ELSE [boot EXCEPT !.obs = seen, !.i = 1,
                                    !.pc = IF boot.delay > 0 THEN "delay" ELSE "launch"]
    /\ UNCHANGED startupVars

\* time.Sleep(time.Second), then validAuditLogs(paths) again
Sleep ==
    /\ boot.pc = "sleep"
    /\ boot' = [boot EXCEPT !.pc = "check", !.i = 1, !.obs = [p \in Paths |-> "none"]]
    /\ UNCHANGED startupVars

\* if delay > 0 { time.Sleep(delay) }
Delay ==
    /\ boot.pc = "delay"
    /\ boot' = [boot EXCEPT !.pc = "launch", !.slept = boot.slept + 1]
    /\ UNCHANGED startupVars

\* one iteration of the last loop: NewExporter for path boot.i and go e.Run()
Launch ==
    /\ boot.pc = "launch"
    /\ boot' = [boot EXCEPT !.started = boot.started \cup {boot.i},
                            !.i = boot.i + 1,
                            !.pc = IF boot.i < NPaths THEN "launch" ELSE "running"]
    /\ UNCHANGED startupVars

\* the goroutine of a started exporter begins its first tailing cycle
FirstCycle(p) ==
    /\ p \in boot.started
    /\ p \notin boot.cycled
    /\ boot' = [boot EXCEPT !.cycled = boot.cycled \cup {p}]
    /\ UNCHANGED startupVars

\* the writer or a rotation creates, fills, empties or removes a file
FileChange(p, st) ==
    /\ boot.files[p] # st
    /\ boot' = [boot EXCEPT !.files[p] = st]
    /\ UNCHANGED startupVars

InitStartup ==
    /\ InitExporter
    /\ boot \in {BootInit(d, st) : d \in Delays, st \in [Paths -> FileStates]}
    /\ pacer = PacerInit(<<>>, 0)
    /\ label = NoLabel

NextStartup ==
    \/ StatFile
    \/ Sleep
    \/ Delay
    \/ Launch
    \/ \E p \in Paths : FirstCycle(p)
    \/ \E p \in Paths : \E st \in FileStates : FileChange(p, st)

SpecStartup == InitStartup /\ [][NextStartup]_vars

-----------------------------------------------------------------------------
(* Replay mode (WithReplay): the pacer between the tailer and the engine.  *)
(* The log is a complete historical one; each record is known by its stage *)
(* timestamp.                                                              *)

\* the historical logs, as the stage timestamps of their records in file order
ReplayLogs == UNION {[1 .. n -> Times] : n \in 0 .. MaxEvents}

\* what the clock shows when the replay begins
ReplayStarts == {MaxTime, MaxTime + 1}

\* the event of a record with stage timestamp ts
ReplayEvent(ts) == Passed("pods", "binding", "a", "create", ts, NoBody)

\* the replay has caught up with an event of age now - ts, lag included
caughtUp_OrEqual(now, ts, lag) == now - ts <= lag

\* age < lag: the replay has caught up
caughtUp(now, ts, lag) == now - ts < lag

replayFrame ==
    <<writerVars, pollHistory, nevents, lastFiltered, resolvedOnce, peer, boot, label>>

\* the wall clock advances
Tick ==
    /\ pacer.ticks < MaxTicks
    /\ pacer' = [pacer EXCEPT !.now = pacer.now + 1, !.ticks = pacer.ticks + 1]
    /\ UNCHANGED <<offset, engineVars, replayFrame>>

\* the next tick of the tailer: a cycle begins at the stored offset
BeginCycle ==
    /\ pacer.pc = "idle"
    /\ pacer' = [pacer EXCEPT !.pc = "reading", !.first = 0,
                              !.prevHeld = pacer.held, !.held = 0]
    /\ UNCHANGED <<offset, engineVars, replayFrame>>

\* the cycle reads the record at the offset: the first event ever fixes the lag and is
\* forwarded; a later one is forwarded while age >= lag and otherwise ends the cycle
\* with the offset still at its record
Consider ==
    /\ pacer.pc = "reading"
    /\ pacer.pos <= Len(pacer.log)
    /\ ~crashed
    /\ LET ts == pacer.log[pacer.pos]
           seen == [pacer EXCEPT !.first = IF pacer.first = 0 THEN pacer.pos ELSE pacer.first]
           fwd == [seen EXCEPT !.pos = pacer.pos + 1,
                               !.forwarded = Append(pacer.forwarded,
                                                    [i |-> pacer.pos, now |-> pacer.now])]
       IN IF pacer.lagSet /\ caughtUp(pacer.now, ts, pacer.lag)
          THEN /\ pacer' = [seen EXCEPT !.pc = "idle", !.held = pacer.pos,
                                        !.heldAge = pacer.now - ts]
               /\ UNCHANGED <<offset, engineVars>>
          ELSE /\ pacer' = IF pacer.lagSet THEN fwd
                           ELSE [fwd EXCEPT !.lagSet = TRUE, !.lag = pacer.now - ts]
               /\ SetEngine(updateMetrics(engine, ReplayEvent(ts)))
               /\ offset' = Advance(offset, Record("c"))
    /\ UNCHANGED replayFrame

\* the cycle reaches the end of the log
EndOfLog ==
    /\ pacer.pc = "reading"
    /\ pacer.pos > Len(pacer.log)
    /\ pacer' = [pacer EXCEPT !.pc = "idle"]
    /\ UNCHANGED <<offset, engineVars, replayFrame>>

InitReplay ==
    /\ InitExporter
    /\ boot = BootInit(0, [p \in Paths |-> "missing"])
    /\ pacer \in {PacerInit(log, now) : log \in ReplayLogs, now \in ReplayStarts}
    /\ label = NoLabel

NextReplay ==
    \/ Tick
    \/ BeginCycle
    \/ Consider
    \/ EndOfLog

SpecReplay == InitReplay /\ [][NextReplay]_vars

-----------------------------------------------------------------------------
(* The user label of a user-agent string.                                  *)

TAB == "\t"

\* the bytes a user-agent string is made of here: two letters, the slash, the space
\* and the horizontal tab
UAChars == {"k", "s", "/", " ", TAB}

\* the user-agent strings of up to MaxLen bytes; the empty one is also what a record
\* without the field decodes to
UserAgents == UNION {[1 .. n -> UAChars] : n \in 0 .. MaxLen}

\* updateMetrics reaches extractUserAgent(event.UserAgent)
ExtractUser ==
    /\ ~label.done
    /\ label' = [label EXCEPT !.user = extractUserAgent(label.ua), !.done = TRUE]
    /\ UNCHANGED <<offset, engineVars, writerVars, pollHistory, nevents, lastFiltered,
                   resolvedOnce, peer, boot, pacer>>

InitLabel ==
    /\ InitExporter
    /\ boot = BootInit(0, [p \in Paths |-> "missing"])
    /\ pacer = PacerInit(<<>>, 0)
    /\ label \in {[ua |-> ua, user |-> <<>>, done |-> FALSE] : ua \in UserAgents}

NextLabel == ExtractUser

SpecLabel == InitLabel /\ [][NextLabel]_vars

-----------------------------------------------------------------------------
(* What a poll of the current state would do, and the file as a reader    *)
(* that knows line boundaries sees it.                                     *)

PollOf(fault) == processFileUpdate(file, engine, offset, fault)

\* the byte the poll starts reading at, once stat has succeeded
StartOf(f, off) == IF Len(f) < off THEN 0 ELSE off

LineEnd(f, pos) == IndexOf(f, NL, pos + 1)
LineAt(f, pos) == SubSeq(f, pos + 1, LineEnd(f, pos))
Terminated(f, pos) == LineEnd(f, pos) # 0
GoodAt(f, pos) ==
    /\ Terminated(f, pos)
    /\ LineAt(f, pos)[1] = LB
    /\ Len(LineAt(f, pos)) >= 3
    /\ LineAt(f, pos)[Len(LineAt(f, pos)) - 1] = RB
    /\ Decodable(LineAt(f, pos))
BadAt(f, pos) == Terminated(f, pos) /\ ~GoodAt(f, pos)
PartialAt(f, pos) == pos < Len(f) /\ ~Terminated(f, pos)

\* the positions of the complete well-formed records that follow one another from pos
RECURSIVE GoodRun(_, _)
GoodRun(f, pos) ==
    IF GoodAt(f, pos) THEN <<pos>> \o GoodRun(f, LineEnd(f, pos)) ELSE <<>>

\* the first byte after the records at positions ps, which start at byte start
EndOf(f, start, ps) == IF ps = <<>> THEN start ELSE LineEnd(f, ps[Len(ps)])

\* the engine after the records at positions ps, applied one at a time in that order
RECURSIVE ApplySeq(_, _, _)
ApplySeq(m, f, ps) ==
    IF ps = <<>> THEN m
    ELSE ApplySeq(updateMetrics(m, ParseEvent(LineAt(f, Head(ps)))), f, Tail(ps))

IsPrefix(s, t) == Len(s) <= Len(t) /\ SubSeq(t, 1, Len(s)) = s
Increasing(ps) == \A i \in 1 .. Len(ps) - 1 : ps[i] < ps[i + 1]
Elems(ps) == {ps[i] : i \in 1 .. Len(ps)}

IOErrors == {"stat", "open", "seek", "read"}

-----------------------------------------------------------------------------
(* The log tailer's claims *)

\* C1: across polls the stored offset never decreases, except in a poll that detects
\* truncation (observed size strictly below the stored offset), which restarts it at 0.
C1_OffsetMonotonic ==
    [][offset' >= offset
       \/ (/\ Len(file) < offset
           /\ last'.reset
           /\ offset' = EndOf(file, 0, applied')
           /\ (applied' # <<>> => applied'[1] = 0))]_vars

\* a poll has reset the offset of a truncated file, after an earlier poll had advanced it
C1_Witness == last.reset /\ last.before > 0 /\ offset < last.before /\ ntruncs > 0

\* C2: when the size is below the stored offset, the poll that observes it resets the
\* offset to 0 and, in the same poll, reads from the first byte of the file: it applies
\* the file's complete records from the start, in order, and reports no error unless a
\* record or the I/O fails; the poll after it does not reset again.
C2_TruncationReset ==
    (~crashed /\ Len(file) < offset) =>
        \A fault \in Faults :
            LET r == PollOf(fault)
            IN IF fault.kind = "stat" THEN ~r.reset /\ r.offset = offset
               ELSE /\ r.reset
                    /\ IsPrefix(r.applied, GoodRun(file, 0))
                    /\ r.offset = EndOf(file, 0, r.applied)
                    /\ r.offset <= Len(file)
                    /\ (fault = NoFault =>
                          /\ r.applied = GoodRun(file, 0)
                          /\ r.m = ApplySeq(engine, file, GoodRun(file, 0))
                          /\ (r.err = "nil" <=> ~BadAt(file, r.offset)))

\* a poll found the file shorter than the offset, reset, and applied a record from byte 0
C2_Witness ==
    /\ last.reset /\ last.size < last.before
    /\ last.napplied >= 1 /\ last.err = "nil"
    /\ applied # <<>> /\ applied[1] = 0
    /\ apiRequests >= 2

\* C3: a terminated line that is not "{" ... "}\n" or does not decode aborts the poll
\* with an error and leaves the offset at the first byte of that line; while the line
\* at the offset stays bad, every poll fails there and changes neither offset nor engine.
C3_BadLineStalls ==
    ~crashed =>
        \A fault \in Faults :
            LET r == PollOf(fault)
            IN /\ (r.err \in BadLineErrors => BadAt(file, r.offset))
               /\ (fault = NoFault /\ BadAt(file, StartOf(file, offset))
                     => r.err \in BadLineErrors)
               /\ (BadAt(file, offset) /\ Len(file) >= offset =>
                     /\ r.offset = offset
                     /\ r.m = engine
                     /\ r.applied = <<>>
                     /\ r.err # "nil"
                     /\ (fault = NoFault =>
                           r.err = IF WellShaped(LineAt(file, offset)) THEN "json"
                                   ELSE "malformed"))

\* a poll failed on a bad line a second time, at the same offset
C3_Witness == last.again /\ last.before = offset /\ BadAt(file, offset) /\ offset > 0

\* C4: a poll that reaches an unterminated last record ends without error, applies
\* nothing of it and leaves the offset at or before its first byte; once the line is
\* complete, a poll applies the record, and no position is applied twice.
C4_PartialRecord ==
    ~crashed =>
        /\ Increasing(applied)
        /\ \A fault \in Faults :
             LET r == PollOf(fault)
                 start == StartOf(file, offset)
                 stop == EndOf(file, start, GoodRun(file, start))
             IN /\ \A q \in Elems(r.applied) : Terminated(file, q)
                /\ (r.offset # offset /\ r.offset # 0 => file[r.offset] = NL)
                /\ (fault = NoFault /\ PartialAt(file, stop) =>
                      r.err = "nil" /\ r.offset = stop /\ r.applied = GoodRun(file, start))
                /\ (fault = NoFault /\ partialPos = offset /\ GoodAt(file, offset) =>
                      /\ r.applied # <<>> /\ r.applied[1] = offset
                      /\ offset \notin Elems(applied)
                      /\ r.offset > offset)

\* a poll stopped at an unterminated record and a later poll applied that record
C4_Witness ==
    /\ partialPos >= 0 /\ partialPos \in Elems(applied)
    /\ last.before = partialPos /\ last.err = "nil"
    /\ apiRequests >= 1

\* C5: the records of one source are applied one at a time in file order: each poll
\* applies the consecutive records from its starting byte, lowest position first, and
\* between two resets the positions applied only increase.
C5_FileOrder ==
    ~crashed =>
        /\ Increasing(applied)
        /\ \A fault \in Faults :
             LET r == PollOf(fault)
                 start == StartOf(file, offset)
             IN fault.kind # "stat" =>
                  /\ IsPrefix(r.applied, GoodRun(file, start))
                  /\ r.m = ApplySeq(engine, file, r.applied)
                  /\ r.offset = EndOf(file, start, r.applied)
                  /\ (fault = NoFault => r.applied = GoodRun(file, start))

\* two event records were applied in order, the create before the binding after it
C5_Witness ==
    /\ Len(applied) >= 2
    /\ podSchedulingLatency = <<1>>
    /\ podCreationTimes[[Name |-> "a", Namespace |-> Namespace]] = Resolved

\* C6 as stated: a poll that fails at stat, open, seek or read leaves the offset as it
\* was before the poll.
C6_FaultKeepsOffset ==
    [][(UNCHANGED writerVars /\ last'.err \in IOErrors) => offset' = offset]_vars

\* C6, amended: a poll that fails at stat leaves the offset unchanged; one that fails at
\* open or seek leaves it unchanged unless the poll had detected truncation, and then
\* it is 0; one that fails at read leaves it just after the last record the poll had
\* applied before the fault.  The engine holds exactly those records.
C6_FaultOffset ==
    ~crashed =>
        \A fault \in Faults :
            LET r == PollOf(fault)
                start == StartOf(file, offset)
            IN /\ (r.err = "stat" => r.offset = offset /\ r.m = engine)
               /\ (r.err \in {"open", "seek"} => r.offset = start /\ r.m = engine)
               /\ (r.err = "read" =>
                     /\ r.offset = EndOf(file, start, r.applied)
                     /\ Len(r.applied) = fault.k
                     /\ IsPrefix(r.applied, GoodRun(file, start))
                     /\ r.m = ApplySeq(engine, file, r.applied))

\* a poll failed at read after it had applied a record and advanced the offset
C6_Witness == last.err = "read" /\ last.napplied >= 1 /\ offset > last.before /\ ~last.reset

\* C7 as stated: a poll of a file whose size is what it was at the previous poll
\* changes neither the offset nor the engine.
C7_UnchangedSizeNoOp ==
    [][(UNCHANGED writerVars /\ last.size = Len(file)) => UNCHANGED <<offset, engineVars>>]_vars

\* C7, amended: a poll of a file whose size equals the stored offset changes neither
\* the offset nor the engine, and reports no error but a failed stat.
C7_SizeEqualsOffsetNoOp ==
    (~crashed /\ Len(file) = offset) =>
        \A fault \in Faults :
            LET r == PollOf(fault)
            IN /\ r.offset = offset
               /\ r.m = engine
               /\ r.applied = <<>>
               /\ ~r.reset
               /\ r.err = (IF fault.kind = "stat" THEN "stat" ELSE "nil")

\* a poll found the size of a consumed, non-empty file equal to the offset and did nothing
C7_Witness ==
    /\ last.err = "nil" /\ last.size = last.before /\ last.napplied = 0
    /\ offset = last.before /\ Len(file) = offset /\ apiRequests >= 1

-----------------------------------------------------------------------------
(* The correlation engine's claims.  A step of the engine is explained by  *)
(* every event that takes the engine from its state before to its state    *)
(* after.                                                                  *)

Explains(event) == engine' = updateMetrics(engine, event)

TargetA == [Name |-> "a", Namespace |-> Namespace]

\* a create whose response body names t and which stores a pending entry for it
IsCreateFor(event, res, t) ==
    /\ ~Ignored(event) /\ event.hasRef
    /\ event.Resource = res /\ event.Verb = "create"
    /\ event.ResponseObject.kind = "obj"
    /\ [Name |-> event.ResponseObject.Name, Namespace |-> event.ResponseObject.Namespace] = t
    /\ (res = "pods" => event.Subresource # "binding" /\ event.ResponseObject.NodeName = "")

\* the observations a step has added to a histogram
Added(before, after) == SubSeq(after, Len(before) + 1, Len(after))

\* C8: an event with no response status, or with a code outside [200, 300), is ignored
\* entirely: no counter, no observation and no lifecycle entry changes, whatever the
\* event's verb, stage or resource.
C8_EntryFilter ==
    ~crashed => \A event \in Events : Ignored(event) => updateMetrics(engine, event) = engine

\* an ignored event was handed to an engine that had counted a request and held a
\* pending pod, and left them so
C8_Witness ==
    /\ lastFiltered /\ nevents >= 2
    /\ apiRequests >= 1
    /\ podCreationTimes[TargetA].tag = "pending"

C10_LatencyFromPending ==
    [][(podSchedulingLatency' # podSchedulingLatency
        \/ batchJobCompleteLatency' # batchJobCompleteLatency)
       => \A event \in Events : Explains(event) =>
            LET t == RefTarget(event)
                pods == Added(podSchedulingLatency, podSchedulingLatency')
                jobs == Added(batchJobCompleteLatency, batchJobCompleteLatency')
            IN /\ Len(pods) + Len(jobs) = 1
               /\ (pods # <<>> =>
                     /\ podCreationTimes[t].tag = "pending"
                     /\ pods[1] = event.StageTimestamp - podCreationTimes[t].t
                     /\ podCreationTimes'[t] = Resolved)
               /\ (jobs # <<>> =>
                     /\ batchJobCreationTimes[t].tag = "pending"
                     /\ jobs[1] = event.StageTimestamp - batchJobCreationTimes[t].t
                     /\ batchJobCreationTimes'[t] = Resolved)]_vars

\* C10, amended: a pod scheduling observation is the binding's stage timestamp minus
\* the timestamp stored in the Target's pending entry, or 0 when the Target has no
\* entry; a job completion observation is emitted only for a pending entry and is the
\* event's stage timestamp minus the creation timestamp of the job snapshot the event
\* carries; the event leaves the entry resolved, and a step emits at most one
\* observation.
C10_Latency ==
    ~crashed =>
        \A event \in Events :
            LET m == updateMetrics(engine, event)
                t == RefTarget(event)
                pods == Added(podSchedulingLatency, m.podSchedulingLatency)
                jobs == Added(batchJobCompleteLatency, m.batchJobCompleteLatency)
            IN /\ Len(pods) + Len(jobs) <= 1
               /\ IsPrefix(podSchedulingLatency, m.podSchedulingLatency)
               /\ IsPrefix(batchJobCompleteLatency, m.batchJobCompleteLatency)
               /\ (pods # <<>> =>
                     /\ podCreationTimes[t].tag \in {"pending", "absent"}
                     /\ pods[1] = IF podCreationTimes[t].tag = "pending"
                                   THEN event.StageTimestamp - podCreationTimes[t].t
                                   ELSE 0
                     /\ m.podCreationTimes[t] = Resolved)
               /\ (jobs # <<>> =>
                     /\ batchJobCreationTimes[t].tag = "pending"
                     /\ event.ResponseObject.kind = "obj"
                     /\ jobs[1] = event.StageTimestamp
                                    - event.ResponseObject.CreationTimestamp
                     /\ m.batchJobCreationTimes[t] = Resolved)

\* a pending pod was bound with a positive latency, and a binding for it after that
\* emitted nothing more
C10_Witness ==
    /\ nevents = 3
    /\ podSchedulingLatency = <<MaxTime>>
    /\ podCreationTimes[TargetA] = Resolved
    /\ batchJobCompleteLatency = <<>>

\* a pods/binding create that passes the entry filter, for the Target t
IsBindingFor(event, t) ==
    /\ ~Ignored(event) /\ event.hasRef
    /\ event.Resource = "pods" /\ event.Subresource = "binding" /\ event.Verb = "create"
    /\ RefTarget(event) = t

\* the engine after event c and then event b
After2(m, c, b) == updateMetrics(updateMetrics(m, c), b)

\* the events of each kind, by the Target they are for
Bindings == [t \in Targets |-> {b \in Events : IsBindingFor(b, t)}]
PodCreates == [t \in Targets |-> {c \in Events : IsCreateFor(c, "pods", t)}]
JobCreates == [t \in Targets |-> {c \in Events : IsCreateFor(c, "jobs", t)}]
PodDeletes == [t \in Targets |-> {d \in Events : IsDeleteFor(d, "pods", t)}]
JobDeletes == [t \in Targets |-> {d \in Events : IsDeleteFor(d, "jobs", t)}]

\* C11: when a pod is created unscheduled (empty nodeName) by an event at t0 and a
\* binding create for the same Target arrives at t1 while the entry is pending, exactly
\* one scheduling-latency observation t1 - t0 is emitted and the entry is resolved.
C11_BindingLatency ==
    ~crashed =>
        \A t \in Targets : \A c \in PodCreates[t] :
            \A b \in Bindings[t] :
                LET m1 == updateMetrics(engine, c)
                    m2 == updateMetrics(m1, b)
                IN /\ m1.podCreationTimes[t] = Pending(c.StageTimestamp)
                   /\ Added(m1.podSchedulingLatency, m2.podSchedulingLatency)
                        = <<b.StageTimestamp - c.StageTimestamp>>
                   /\ m1.podSchedulingLatency = podSchedulingLatency
                   /\ m2.batchJobCompleteLatency = batchJobCompleteLatency
                   /\ m2.podCreationTimes[t] = Resolved
                   /\ ~m2.crashed

\* a pod was created and then bound one time unit later: one observation of 1
C11_Witness ==
    /\ nevents = 2 /\ apiRequests = 2
    /\ podSchedulingLatency = <<1>>
    /\ podCreationTimes[TargetA] = Resolved
    /\ podDeletedTotal = <<>>

\* C12: a pod binding create whose Target has no entry emits exactly one
\* scheduling-latency observation of 0 and marks the Target resolved, so a later binding
\* for that Target emits nothing.
C12_AbsentBinding ==
    ~crashed =>
        \A t \in Targets : podCreationTimes[t] = Absent =>
            \A b \in Bindings[t] :
                LET m1 == updateMetrics(engine, b)
                IN /\ Added(podSchedulingLatency, m1.podSchedulingLatency) = <<0>>
                   /\ IsPrefix(podSchedulingLatency, m1.podSchedulingLatency)
                   /\ m1.batchJobCompleteLatency = batchJobCompleteLatency
                   /\ m1.podCreationTimes[t] = Resolved
                   /\ \A b2 \in Bindings[t] :
                        LET m2 == updateMetrics(m1, b2)
                        IN /\ m2.podSchedulingLatency = m1.podSchedulingLatency
                           /\ m2.batchJobCompleteLatency = m1.batchJobCompleteLatency
                           /\ m2.podCreationTimes[t] = Resolved

\* a binding arrived for a pod never seen created, and another event after it: one
\* observation of 0 and nothing more, the Target resolved
C12_Witness ==
    /\ nevents = 2 /\ apiRequests = 2
    /\ podSchedulingLatency = <<0>>
    /\ podCreationTimes[TargetA] = Resolved
    /\ podCreationTimes[ZeroTarget] = Absent
    /\ batchJobCreationTimes[TargetA] = Absent

\* a jobs event that passes the entry filter, with a verb other than create and delete
\* and a response body, for the Target t
IsJobUpdateFor(event, t) ==
    /\ ~Ignored(event) /\ event.hasRef
    /\ event.Resource = "jobs" /\ event.Verb \notin {"create", "delete"}
    /\ event.ResponseObject.kind # "nil"
    /\ RefTarget(event) = t

JobUpdates == [t \in Targets |-> {u \in Events : IsJobUpdateFor(u, t)}]

\* a create that passes the entry filter and whose response body names t
NamesInCreate(event, res, t) ==
    /\ ~Ignored(event) /\ event.hasRef
    /\ event.Resource = res /\ event.Verb = "create"
    /\ event.ResponseObject.kind = "obj"
    /\ [Name |-> event.ResponseObject.Name, Namespace |-> event.ResponseObject.Namespace] = t

SameObservations(m1, m2) ==
    /\ m1.podSchedulingLatency = m2.podSchedulingLatency
    /\ m1.batchJobCompleteLatency = m2.batchJobCompleteLatency

C14_DeleteClears ==
    ~crashed =>
        \A t \in Targets :
            /\ \A d \in PodDeletes[t] :
                 LET m1 == updateMetrics(engine, d)
                 IN /\ m1.podCreationTimes[t] = Absent
                    /\ SameObservations(m1, engine)
                    /\ \A b \in Bindings[t] :
                         LET m2 == updateMetrics(m1, b)
                         IN /\ Added(m1.podSchedulingLatency, m2.podSchedulingLatency) = <<0>>
                            /\ m2.podCreationTimes[t] = Resolved
                    /\ \A c \in PodCreates[t] :
                         \A b \in Bindings[t] :
                             LET m3 == After2(m1, c, b)
                             IN /\ Added(m1.podSchedulingLatency, m3.podSchedulingLatency)
                                     = <<b.StageTimestamp - c.StageTimestamp>>
                                /\ m3.podCreationTimes[t] = Resolved
            /\ \A d \in JobDeletes[t] :
                 LET m1 == updateMetrics(engine, d)
                 IN /\ m1.batchJobCreationTimes[t] = Absent
                    /\ SameObservations(m1, engine)
                    /\ \A u \in JobUpdates[t] :
                         LET m2 == updateMetrics(m1, u)
                         IN SameObservations(m2, m1) /\ m2.batchJobCreationTimes[t] = Absent
                    /\ \A c \in JobCreates[t] :
                         \A u \in JobUpdates[t] :
                             LET m3 == After2(m1, c, u)
                                 body == u.ResponseObject
                             IN Added(m1.batchJobCompleteLatency, m3.batchJobCompleteLatency)
                                  = IF body.kind = "obj" /\ IsCompleted(body)
                                    THEN <<u.StageTimestamp - body.CreationTimestamp>>
                                    ELSE <<>>

\* a pod was deleted with its snapshot and created after that: the entry holds the
\* time of that create, the latest time there is
C14_Witness ==
    /\ nevents = 3 /\ apiRequests = 3
    /\ podDeletedTotal # <<>>
    /\ podCreationTimes[TargetA] = Pending(MaxTime)
    /\ podSchedulingLatency = <<>>

\* C15: a jobs event with a verb other than create and delete and with a response body:
\* when the Target's entry is pending and the snapshot satisfies the completion
\* predicate, exactly one job-completion observation stageTimestamp - snapshot
\* creationTimestamp is emitted and the entry becomes resolved; otherwise nothing is
\* emitted and the entry is unchanged.  No other entry changes.
C15_JobUpdate ==
    ~crashed =>
        \A t \in Targets : \A u \in JobUpdates[t] :
            LET m == updateMetrics(engine, u)
                entry == batchJobCreationTimes[t]
                body == u.ResponseObject
            IN /\ IF entry.tag = "pending" /\ body.kind = "obj" /\ IsCompleted(body)
                  THEN /\ Added(batchJobCompleteLatency, m.batchJobCompleteLatency)
                            = <<u.StageTimestamp - body.CreationTimestamp>>
                       /\ IsPrefix(batchJobCompleteLatency, m.batchJobCompleteLatency)
                       /\ m.batchJobCreationTimes[t] = Resolved
                  ELSE /\ m.batchJobCompleteLatency = batchJobCompleteLatency
                       /\ m.batchJobCreationTimes[t] = entry
               /\ m.podSchedulingLatency = podSchedulingLatency
               /\ m.podCreationTimes = podCreationTimes
               /\ \A t2 \in Targets \ {t} :
                    m.batchJobCreationTimes[t2] = batchJobCreationTimes[t2]

\* a job was created and an update with a completed snapshot resolved it
C15_Witness ==
    /\ nevents = 2 /\ apiRequests = 2
    /\ Len(batchJobCompleteLatency) = 1
    /\ batchJobCreationTimes[TargetA] = Resolved
    /\ <<"jobs", TargetA>> \in resolvedOnce

\* the completion predicate as the specification words it
CompletedBySpec(body) ==
    \/ body.StatePhase = "Completed"
    \/ body.HasCompletionTime
    \/ \E i \in 1 .. Len(body.Conditions) : HasPrefix(body.Conditions[i], <<"Complete">>)

\* C16: the job completion predicate is true exactly when the engine-specific phase is
\* "Completed", or the completion timestamp is non-zero, or some status condition's type
\* begins with "Complete"; the engine resolves a pending job on exactly those updates.
C16_CompletionPredicate ==
    ~crashed =>
        \A t \in Targets : \A u \in Events :
            (IsJobUpdateFor(u, t) /\ u.ResponseObject.kind = "obj") =>
                /\ IsCompleted(u.ResponseObject) <=> CompletedBySpec(u.ResponseObject)
                /\ batchJobCreationTimes[t].tag = "pending" =>
                     (updateMetrics(engine, u).batchJobCreationTimes[t] = Resolved
                        <=> CompletedBySpec(u.ResponseObject))

\* the complete record at pos carries a response body that fails to decode
BadSnapshotAt(f, pos) ==
    GoodAt(f, pos) /\ ParseEvent(LineAt(f, pos)).ResponseObject.kind = "bad"

\* the number of records among those at positions ps whose event is counted as an API
\* request: a status code in [200, 300) at stage ResponseComplete
RECURSIVE Counted(_, _)
Counted(f, ps) ==
    IF ps = <<>> THEN 0
    ELSE LET e == ParseEvent(LineAt(f, Head(ps)))
         IN (IF ~Ignored(e) /\ e.Stage = "ResponseComplete" THEN 1 ELSE 0)
            + Counted(f, Tail(ps))

\* C17: a snapshot that fails to decode skips only its correlation step: the event is
\* counted as an API request, no observation and no pod-deleted increment is made, no
\* entry is stored, the poll goes on to the following records, and the offset ends
\* after them.
C17_SnapshotDecodeFailure ==
    ~crashed =>
        /\ \A b \in EventBytes : DecodeTable[b].ResponseObject.kind = "bad" =>
             LET e == DecodeTable[b]
                 m == updateMetrics(engine, e)
             IN /\ ~m.crashed
                /\ m.apiRequests = apiRequests + 1
                /\ SameObservations(m, engine)
                /\ m.podDeletedTotal = podDeletedTotal
                /\ m.batchJobCreationTimes = batchJobCreationTimes
                /\ \A t \in Targets :
                     m.podCreationTimes[t] =
                        IF IsDeleteFor(e, "pods", t) THEN Absent ELSE podCreationTimes[t]
        /\ LET r == PollOf(NoFault)
               start == StartOf(file, offset)
               run == GoodRun(file, start)
           IN (\E i \in 1 .. Len(run) : BadSnapshotAt(file, run[i])) =>
                 /\ r.applied = run
                 /\ r.offset = EndOf(file, start, run)
                 /\ r.err # "panic" /\ ~r.m.crashed
                 /\ (r.err # "nil" => BadAt(file, r.offset))
                 /\ r.m.apiRequests = apiRequests + Counted(file, run)
                 /\ r.m = ApplySeq(engine, file, run)

\* one poll applied a pod create whose body did not decode and the binding after it:
\* both are counted, the binding found no entry, the offset is at the end of the file
C17_Witness ==
    /\ file = Record("d") \o PaddedRecord("b")
    /\ offset = Len(file) /\ last.before = 0 /\ last.napplied = 2 /\ last.err = "nil"
    /\ apiRequests = 2
    /\ podSchedulingLatency = <<0>>

\* C18: a pod delete removes the Target's entry whether or not a response body is
\* present and whether or not it decodes; the pod-deleted counter is incremented once,
\* with the phase of the deleted snapshot, only when the body is present and decodes.
\* Nothing else changes but the API-request counter.
C18_PodDelete ==
    ~crashed =>
        \A t \in Targets : \A d \in PodDeletes[t] :
            LET m == updateMetrics(engine, d)
                body == d.ResponseObject
            IN /\ m.podCreationTimes[t] = Absent
               /\ \A t2 \in Targets \ {t} : m.podCreationTimes[t2] = podCreationTimes[t2]
               /\ IsPrefix(podDeletedTotal, m.podDeletedTotal)
               /\ Added(podDeletedTotal, m.podDeletedTotal)
                    = IF body.kind = "obj" THEN <<body.Phase>> ELSE <<>>
               /\ SameObservations(m, engine)
               /\ m.batchJobCreationTimes = batchJobCreationTimes
               /\ ~m.crashed

\* a pod was created, bound and deleted with its snapshot: one latency, one deleted pod
\* of phase Succeeded, no entry left
C18_Witness ==
    /\ nevents = 3 /\ apiRequests = 3
    /\ Len(podSchedulingLatency) = 1 /\ podSchedulingLatency[1] > 0
    /\ podDeletedTotal = <<"Succeeded">>
    /\ podCreationTimes[TargetA] = Absent
    /\ resolvedOnce = {}

BarrierPassed == boot.pc \in {"delay", "launch", "running"}
BarrierState ==
    /\ boot.cycled \subseteq boot.started
    /\ (boot.started # {} \/ BarrierPassed) => \A p \in Paths : boot.obs[p] = "ready"
    /\ (\E p \in Paths : boot.obs[p] \in {"missing", "empty"}) =>
            boot.pc = "sleep" /\ boot.started = {}
    /\ ~BarrierPassed => boot.started = {} /\ boot.slept = 0
    /\ boot.pc = "delay" => boot.started = {} /\ boot.slept = 0 /\ boot.delay > 0
    /\ boot.started # {} => boot.slept = (IF boot.delay > 0 THEN 1 ELSE 0)

\* C20: no exporter is started, and no tailing cycle begins, before one call of the
\* check has found every configured file existing and non-empty; a call that finds a
\* file missing or empty starts nothing, whatever the other files are, and is followed
\* by another call; when a delay is configured it is slept exactly once, after the
\* check has passed and before the first exporter is started.
C20_Barrier ==
    /\ []BarrierState
    /\ [][boot.pc = "sleep" /\ boot'.pc # "sleep" =>
            boot'.pc = "check" /\ boot'.started = {} /\ boot'.i = 1]_vars

\* both exporters began tailing after a check had failed at least once and the delay
\* had been slept; the first file has since been emptied
C20_Witness ==
    /\ boot.cycled = Paths
    /\ boot.retried
    /\ boot.delay > 0 /\ boot.slept = 1
    /\ boot.files[1] = "empty"

\* what holds of a replay at every moment
PacerState ==
    LET n == Len(pacer.forwarded)
    IN /\ pacer.pos = n + 1
       /\ apiRequests = n
       /\ offset = n * Len(Record("c"))
       /\ pacer.lagSet <=> n > 0
       /\ n > 0 => pacer.lag = pacer.forwarded[1].now - pacer.log[1]
       /\ \A k \in 1 .. n :
            /\ pacer.forwarded[k].i = k
            /\ pacer.forwarded[k].now - pacer.log[k] >= pacer.lag
       /\ pacer.held # 0 =>
            /\ pacer.pc = "idle" /\ pacer.held = pacer.pos
            /\ pacer.heldAge < pacer.lag
       /\ (pacer.prevHeld # 0 /\ pacer.first # 0) => pacer.first = pacer.prevHeld

\* C21: in replay mode the lag is the first event's age when it was first read and never
\* changes afterwards; the events are forwarded to the engine in file order without
\* gaps, each at a moment when its age is at least the lag; an event whose age is below
\* the lag ends the cycle with the offset still at its record, and it is the first
\* event the next cycle considers.
C21_ReplayPacing ==
    /\ []PacerState
    /\ [][pacer.lagSet => pacer'.lagSet /\ pacer'.lag = pacer.lag]_vars
    /\ [][(pacer.pc = "reading" /\ pacer'.pc = "idle" /\ pacer.pos <= Len(pacer.log)) =>
            /\ pacer'.held = pacer.pos /\ pacer'.pos = pacer.pos
            /\ UNCHANGED <<offset, engineVars>>]_vars

\* an event was held back in one cycle and, the clock having advanced, forwarded as the
\* first event of a later cycle
C21_Witness ==
    /\ pacer.prevHeld = 2 /\ pacer.first = 2
    /\ Len(pacer.forwarded) >= 2
    /\ pacer.forwarded[2].now > pacer.forwarded[1].now
    /\ pacer.forwarded[2].now - pacer.log[2] = pacer.lag

\* the bytes of s before the first byte that is in seps, all of s if there is none
Before(s, seps) ==
    LET cut == {i \in 1 .. Len(s) : s[i] \in seps}
    IN IF cut = {} THEN s
       ELSE SubSeq(s, 1, (CHOOSE i \in cut : \A j \in cut : i <= j) - 1)

\* C22 as stated: the user label is the first whitespace-separated token of the part of
\* the user-agent before its first "/", "unknown" when that token is empty, and never
\* the empty string.
C22_WhitespaceToken ==
    label.done =>
        LET token == Before(Before(label.ua, {"/"}), {" ", TAB})
        IN /\ label.user = (IF token = <<>> THEN Unknown ELSE token)
           /\ label.user # <<>>

\* C22: the user label is the part of the user-agent before its first "/" or space,
\* whichever comes first, and "unknown" when that part is empty; a tab or any other
\* byte is part of the label. The label is never the empty string.
C22_UserLabel ==
    label.done =>
        LET token == Before(label.ua, {"/", " "})
        IN /\ label.user = (IF token = <<>> THEN Unknown ELSE token)
           /\ label.user # <<>>
           /\ (label.ua = <<>> \/ label.ua[1] \in {"/", " "}) <=> token = <<>>

\* a user-agent with a tab inside its name, before the slash: the label keeps the tab
C22_Witness ==
    /\ label.done
    /\ label.ua = <<"k", TAB, "/">>
    /\ label.user = <<"k", TAB>>

\* C23: an event increments the API-request counter by exactly one when it has a
\* response status with a code in [200, 300) and its stage is ResponseComplete, and not
\* at all otherwise, whatever its resource and object and whatever the pod or job step
\* does with it (store, resolve, emit, ignore an undecodable body, or fail on a
\* missing one).
C23_APIRequests ==
    ~crashed =>
        \A event \in Events :
            LET m == updateMetrics(engine, event)
                counted == /\ event.hasStatus
                           /\ event.Code >= CodeLow /\ event.Code < CodeHigh
                           /\ event.Stage = StageResponseComplete
            IN m.apiRequests = apiRequests + (IF counted THEN 1 ELSE 0)

\* three events were fed: two were counted, one of them resolving a pod with an
\* observation, and the last was dropped by the entry filter
C23_Witness ==
    /\ nevents = 3 /\ apiRequests = 2
    /\ lastFiltered
    /\ podSchedulingLatency # <<>>

\* a non-binding pod create that passes the entry filter and whose response body names
\* t with a non-empty spec.nodeName
IsScheduledCreateFor(event, t) ==
    /\ ~Ignored(event) /\ event.hasRef
    /\ event.Resource = "pods" /\ event.Subresource # "binding" /\ event.Verb = "create"
    /\ event.ResponseObject.kind = "obj"
    /\ [Name |-> event.ResponseObject.Name, Namespace |-> event.ResponseObject.Namespace] = t
    /\ event.ResponseObject.NodeName # ""

ScheduledCreates == [t \in Targets |-> {c \in Events : IsScheduledCreateFor(c, t)}]

\* the engine after the events c, e and b in that order
After3(m, c, e, b) == updateMetrics(After2(m, c, e), b)

BodilessCreate == Passed("pods", "", "a", "create", 0, NoBody)

\* C25: a pod create without a response body, processed by either exporter, changes no
\* lifecycle entry and ends nothing: afterwards, as before, each exporter can go on to
\* process the next record of its own file.
C25_FaultIsolation ==
    /\ ~crashed =>
         \A i \in Exporters :
            LET own == IF i = 1 THEN engine
                       ELSE Engine(peer.podCreationTimes, peer.batchJobCreationTimes,
                                   apiRequests, podSchedulingLatency, podDeletedTotal,
                                   batchJobCompleteLatency, crashed)
                m == updateMetrics(own, BodilessCreate)
            IN /\ m.podCreationTimes = own.podCreationTimes
               /\ m.batchJobCreationTimes = own.batchJobCreationTimes
    /\ nevents + peer.n < MaxEvents =>
         \A i \in Exporters : \E event \in PairEvents : ENABLED PairStep(i, event)

\* the engine of a new exporter
NewEngine ==
    Engine([t \in Targets |-> Absent], [t \in Targets |-> Absent], 0, <<>>, <<>>, <<>>, FALSE)

\* the total length of the records at positions ps
RECURSIVE TotalLength(_, _)
TotalLength(f, ps) ==
    IF ps = <<>> THEN 0 ELSE Len(LineAt(f, Head(ps))) + TotalLength(f, Tail(ps))

\* C26: as long as the file has only been appended to, the records applied so far are
\* the complete well-formed records from byte 0 on, one after another, each applied
\* once; the engine is what applying them once each in file order gives; the offset is
\* their total length, the first byte of the next record; and a poll applies the
\* complete well-formed records that follow from there and none of those applied before,
\* whether earlier polls stopped at a partial record, at a bad line or on an I/O fault.
C26_ExactlyOnce ==
    (~crashed /\ ntruncs = 0) =>
        /\ IsPrefix(applied, GoodRun(file, 0))
        /\ Increasing(applied)
        /\ offset = TotalLength(file, applied)
        /\ offset = EndOf(file, 0, applied)
        /\ engine = ApplySeq(NewEngine, file, applied)
        /\ \A fault \in Faults :
             LET r == PollOf(fault)
             IN /\ ~r.reset
                /\ IsPrefix(r.applied, GoodRun(file, offset))
                /\ Elems(r.applied) \cap Elems(applied) = {}
                /\ r.offset = offset + TotalLength(file, r.applied)
                /\ (fault = NoFault => r.applied = GoodRun(file, offset))

\* a record was applied by the poll after the one that had found it unfinished, and the
\* poll after that failed on the bad line behind it: the offset is the record's length
C26_Witness ==
    /\ ntruncs = 0
    /\ partialPos = 0 /\ applied = <<0>>
    /\ last.err \in BadLineErrors
    /\ offset = Len(Record("c")) /\ BadAt(file, offset)
    /\ apiRequests = 1

\* C27: a poll resets the offset exactly when its stat succeeds and the size it finds
\* is strictly below the stored offset.  Any other poll never moves the offset back:
\* when the file has been truncated and has grown again to the offset or beyond, the
\* poll does not reset and reads on from the old offset, wherever that falls in the new
\* content, and when the new size equals the offset it reads nothing.
C27_ResetIffShorter ==
    ~crashed =>
        \A fault \in Faults :
            LET r == PollOf(fault)
            IN /\ r.reset <=> (fault.kind # "stat" /\ Len(file) < offset)
               /\ r.offset < offset => r.reset
               /\ (r.reset /\ fault.kind \in {"open", "seek"}) => r.offset = 0
               /\ ~r.reset =>
                    /\ r.offset >= offset
                    /\ IsPrefix(r.applied, GoodRun(file, offset))
                    /\ r.offset = EndOf(file, offset, r.applied)
                    /\ (Len(file) = offset => r.applied = <<>>)

\* the file was truncated after a poll had consumed it and grew past the old offset
\* before the next poll: that poll did not reset, read from the old offset, which is
\* inside the new record, and failed there without applying the record
C27_Witness ==
    /\ ntruncs = 1
    /\ file = Record("c") /\ GoodAt(file, 0)
    /\ last.before = Len(EmptyObject) /\ last.size = Len(file) /\ ~last.reset
    /\ last.err = "malformed" /\ last.napplied = 0
    /\ offset = last.before
    /\ apiRequests = 0

\* C28: a poll that resets the offset leaves the lifecycle maps, the counters and the
\* observations as they were and applies the records it reads from byte 0 to that
\* state: a reset poll that fails before reading changes nothing but the offset, and
\* otherwise the engine afterwards is the engine before with those records applied in
\* order, the API-request counter grown by the number of them that are counted, whether
\* or not they had been counted before the truncation.
C28_ResetKeepsState ==
    (~crashed /\ Len(file) < offset) =>
        \A fault \in Faults :
            LET r == PollOf(fault)
            IN fault.kind # "stat" =>
                 /\ r.reset
                 /\ (fault.kind \in {"open", "seek"} => r.m = engine /\ r.offset = 0)
                 /\ r.m = ApplySeq(engine, file, r.applied)
                 /\ r.m.apiRequests = apiRequests + Counted(file, r.applied)
                 /\ IsPrefix(podSchedulingLatency, r.m.podSchedulingLatency)
                 /\ IsPrefix(podDeletedTotal, r.m.podDeletedTotal)
                 /\ IsPrefix(batchJobCompleteLatency, r.m.batchJobCompleteLatency)
                 /\ (r.applied = <<>> => r.m = engine)

\* a binding was applied, the file truncated and a shorter create record written: the
\* resetting poll counted a second request and stored the create over the resolved
\* entry, and the observation made before the truncation is still there
C28_Witness ==
    /\ last.reset /\ last.napplied = 1
    /\ file = Record("c")
    /\ apiRequests = 2
    /\ podSchedulingLatency = <<0>>
    /\ podCreationTimes[TargetA] = Pending(0)

=============================================================================
